---- MODULE Spec2Model ----
(***************************************************************************)
(* A model of piwrapper: the PIValue serializer (PiConnect.PIValue) and    *)
(* the tag-resolution / request-orchestration layer of                     *)
(* PiConnect.Connection, run against a transport that answers every        *)
(* request with a response chosen from a bounded set.                      *)
(*                                                                         *)
(* Conventions.  A text that the program formats, concatenates or escapes  *)
(* (a str value, a URL, a JSON literal) is the sequence of its Unicode     *)
(* code points.  A Python scalar is a record [t |-> type, s |-> str(v)].   *)
(* A Python dict (and a parsed JSON object) is a sequence of <<key, value>>*)
(* pairs in insertion order, with pairwise distinct keys.                  *)
(***************************************************************************)
EXTENDS Integers, Sequences, FiniteSets, TLC

VARIABLES
    pc,             \* position of the caller: idle, top, dataservers, search,
                    \* fetch, post, done
    call,           \* the public operation in progress and its arguments
    requests,       \* the requests handed to the transport during this call
    responses,      \* the responses the transport gave, in the same order
    webid_dic,      \* the local webid_dic of the operation in progress
    response_dict,  \* the mapping a multi-result operation is building
    outcome,        \* what the call returned or raised
    data_server_list \* the attribute self.data_server_list of the connection

vars ==
    <<pc, call, requests, responses, webid_dic, response_dict, outcome,
      data_server_list>>

----------------------------------------------------------------------------
(* Bounds of the model *)

MaxItems == 2       \* longest "Items" list of a search response

----------------------------------------------------------------------------
(* Python values *)

\* the texts of the program and of the inputs, as code points
s_dash == <<45>>    \* -
s_T == <<84>>    \* T
s_colon == <<58>>    \* :
s_dot == <<46>>    \* .
s_esc_quote == <<92, 34>>    \* (backslash)(double quote)
s_esc_backslash == <<92, 92>>    \* (backslash)(backslash)
s_esc_b == <<92, 98>>    \* (backslash)b
s_esc_f == <<92, 102>>    \* (backslash)f
s_esc_n == <<92, 110>>    \* (backslash)n
s_esc_r == <<92, 114>>    \* (backslash)r
s_esc_t == <<92, 116>>    \* (backslash)t
s_esc_u == <<92, 117>>    \* (backslash)u
s_quote == <<34>>    \* (double quote)
s_null == <<110, 117, 108, 108>>    \* null
s_true == <<116, 114, 117, 101>>    \* true
s_false == <<102, 97, 108, 115, 101>>    \* false
s_None == <<78, 111, 110, 101>>    \* None
s_True == <<84, 114, 117, 101>>    \* True
s_False == <<70, 97, 108, 115, 101>>    \* False
s_nan == <<110, 97, 110>>    \* nan
s_inf == <<105, 110, 102>>    \* inf
s_neg_inf == <<45, 105, 110, 102>>    \* -inf
s_NaN == <<78, 97, 78>>    \* NaN
s_Infinity == <<73, 110, 102, 105, 110, 105, 116, 121>>    \* Infinity
s_neg_Infinity == <<45, 73, 110, 102, 105, 110, 105, 116, 121>>    \* -Infinity
s_0 == <<48>>    \* 0
s_0_0 == <<48, 46, 48>>    \* 0.0
s_neg_0_0 == <<45, 48, 46, 48>>    \* -0.0
s_degC == <<100, 101, 103, 67>>    \* degC
s_degree_C == <<176, 67>>    \* the degree sign, then C
s_42_5 == <<52, 50, 46, 53>>    \* 42.5
s_a_quote_b == <<97, 34, 98>>    \* a, a double quote, b
s_DoNotBuffer == <<68, 111, 78, 111, 116, 66, 117, 102, 102, 101, 114>>    \* DoNotBuffer
s_BufferIdPossible == <<66, 117, 102, 102, 101, 114, 73, 100, 80, 111, 115, 115, 105, 98, 108, 101>>    \* BufferIdPossible
s_Buffer == <<66, 117, 102, 102, 101, 114>>    \* Buffer
s_Replace == <<82, 101, 112, 108, 97, 99, 101>>    \* Replace
s_Insert == <<73, 110, 115, 101, 114, 116>>    \* Insert
s_NoReplace == <<78, 111, 82, 101, 112, 108, 97, 99, 101>>    \* NoReplace
s_ReplaceOnly == <<82, 101, 112, 108, 97, 99, 101, 79, 110, 108, 121>>    \* ReplaceOnly
s_InsertNoCompression == <<73, 110, 115, 101, 114, 116, 78, 111, 67, 111, 109, 112, 114, 101, 115, 115, 105, 111, 110>>    \* InsertNoCompression
s_Remove == <<82, 101, 109, 111, 118, 101>>    \* Remove
s_Exact == <<69, 120, 97, 99, 116>>    \* Exact
s_Before == <<66, 101, 102, 111, 114, 101>>    \* Before
s_After == <<65, 102, 116, 101, 114>>    \* After
s_Interpolated == <<73, 110, 116, 101, 114, 112, 111, 108, 97, 116, 101, 100>>    \* Interpolated
s_piserver == <<112, 105, 115, 101, 114, 118, 101, 114>>    \* piserver
s_https == <<104, 116, 116, 112, 115, 58, 47, 47>>    \* https://
s_piwebapi == <<47, 112, 105, 119, 101, 98, 97, 112, 105, 47>>    \* /piwebapi/
s_tagA == <<116, 97, 103, 65>>    \* tagA
s_tagB == <<116, 97, 103, 66>>    \* tagB
s_W1 == <<87, 49>>    \* W1
s_W2 == <<87, 50>>    \* W2
s_21h == <<50, 48, 50, 49, 45, 49, 49, 45, 49, 51, 84, 50, 49, 58, 48, 48, 58, 48, 48, 90>>    \* 2021-11-13T21:00:00Z
s_22h == <<50, 48, 50, 49, 45, 49, 49, 45, 49, 51, 84, 50, 50, 58, 48, 48, 58, 48, 48, 90>>    \* 2021-11-13T22:00:00Z
s_1_5 == <<49, 46, 53>>    \* 1.5
s_2_5 == <<50, 46, 53>>    \* 2.5
s_3_5 == <<51, 46, 53>>    \* 3.5
s_streams == <<115, 116, 114, 101, 97, 109, 115, 47>>    \* streams/
s_value == <<47, 118, 97, 108, 117, 101>>    \* /value
s_search == <<115, 101, 97, 114, 99, 104, 47, 113, 117, 101, 114, 121, 63, 113, 61, 110, 97, 109, 101, 58>>    \* search/query?q=name:
s_interpolated == <<47, 105, 110, 116, 101, 114, 112, 111, 108, 97, 116, 101, 100>>    \* /interpolated
s_recordedattime == <<47, 114, 101, 99, 111, 114, 100, 101, 100, 97, 116, 116, 105, 109, 101, 63, 114, 101, 116, 114, 105, 101, 118, 97, 108, 77, 111, 100, 101, 61>>    \* /recordedattime?retrievalMode=
s_time == <<38, 116, 105, 109, 101, 61>>    \* &time=
s_exact_lower == <<101, 120, 97, 99, 116>>    \* exact
s_updateOption == <<47, 118, 97, 108, 117, 101, 63, 117, 112, 100, 97, 116, 101, 79, 112, 116, 105, 111, 110, 61>>    \* /value?updateOption=
s_bufferOption == <<38, 98, 117, 102, 102, 101, 114, 79, 112, 116, 105, 111, 110, 61>>    \* &bufferOption=
s_tag_star == <<116, 97, 103, 42>>    \* tag*
s_star == <<42>>    \* *
s_time_21h == <<50, 48, 50, 49, 45, 49, 49, 45, 49, 51, 84, 50, 49, 58, 48, 48, 58, 48, 48>>    \* 2021-11-13T21:00:00
s_dataservers == <<100, 97, 116, 97, 115, 101, 114, 118, 101, 114, 115>>    \* dataservers

None == [t |-> "NoneType", s |-> s_None]
PyTrue == [t |-> "bool", s |-> s_True]
PyFalse == [t |-> "bool", s |-> s_False]
PyStr(x) == [t |-> "str", s |-> x]
PyInt(x) == [t |-> "int", s |-> x]
PyFloat(x) == [t |-> "float", s |-> x]

\* the truth value of a list or a dict in an `if` test
NonEmpty(x) == x # <<>>

\* dict operations on a sequence of <<key, value>> pairs
DictKeys(d) == [i \in 1..Len(d) |-> d[i][1]]
DictHas(d, k) == \E i \in 1..Len(d) : d[i][1] = k
DictGet(d, k) == d[CHOOSE i \in 1..Len(d) : d[i][1] = k][2]
DictSet(d, k, v) ==
    IF DictHas(d, k)
    THEN [i \in 1..Len(d) |-> IF d[i][1] = k THEN <<k, v>> ELSE d[i]]
    ELSE Append(d, <<k, v>>)

\* the outcome of a call or of a helper: a returned value or a raised exception
Return(v) == [kind |-> "return", val |-> v]
Raise(e, m, a) == [kind |-> "raise", exc |-> e, msg |-> m, arg |-> a]
Raised(o, e) == o.kind = "raise" /\ o.exc = e

----------------------------------------------------------------------------
(* PIValue *)

Digit(n) == 48 + n
Pad2(n) == <<Digit((n \div 10) % 10), Digit(n % 10)>>
Pad4(n) == Pad2(n \div 100) \o Pad2(n % 100)
Pad6(n) == Pad2(n \div 10000) \o Pad4(n % 10000)

\* datetime.isoformat() of a naive datetime
isoformat(dt) ==
    PyStr(Pad4(dt.year) \o s_dash \o Pad2(dt.month) \o s_dash \o Pad2(dt.day)
          \o s_T \o Pad2(dt.hour) \o s_colon \o Pad2(dt.minute) \o s_colon
          \o Pad2(dt.second)
          \o (IF dt.microsecond # 0 THEN s_dot \o Pad6(dt.microsecond) ELSE <<>>))

datetime_min ==
    [year |-> 1, month |-> 1, day |-> 1, hour |-> 0, minute |-> 0,
     second |-> 0, microsecond |-> 0]

\* json.dumps of a str (ensure_ascii): the quote, the backslash and every
\* character outside ' '..'~' are escaped
HexDigit(d) == IF d < 10 THEN 48 + d ELSE 87 + d
Hex4(n) ==
    <<HexDigit((n \div 4096) % 16), HexDigit((n \div 256) % 16),
      HexDigit((n \div 16) % 16), HexDigit(n % 16)>>
EscapeChar(c) ==
    CASE c = 34 -> s_esc_quote
      [] c = 92 -> s_esc_backslash
      [] c = 8  -> s_esc_b
      [] c = 12 -> s_esc_f
      [] c = 10 -> s_esc_n
      [] c = 13 -> s_esc_r
      [] c = 9  -> s_esc_t
      [] c >= 32 /\ c <= 126 /\ c # 34 /\ c # 92 -> <<c>>
      [] c >= 65536 ->
            s_esc_u \o Hex4(55296 + (((c - 65536) \div 1024) % 1024))
            \o s_esc_u \o Hex4(56320 + ((c - 65536) % 1024))
      [] OTHER -> s_esc_u \o Hex4(c)
RECURSIVE EscapeString(_)
EscapeString(t) ==
    IF t = <<>> THEN <<>> ELSE EscapeChar(Head(t)) \o EscapeString(Tail(t))

\* json.dumps of a scalar
JsonLiteral(v) ==
    CASE v.t = "NoneType" -> s_null
      [] v.t = "bool"     -> (IF v.s = s_True THEN s_true ELSE s_false)
      [] v.t = "str"      -> s_quote \o EscapeString(v.s) \o s_quote
      [] v.t = "float" /\ v.s = s_nan -> s_NaN
      [] v.t = "float" /\ v.s = s_inf -> s_Infinity
      [] v.t = "float" /\ v.s = s_neg_inf -> s_neg_Infinity
      [] OTHER            -> v.s
\* json.dumps of a flat dict: the members of the JSON object, in order, each
\* a <<key, JSON literal>> pair
json_dumps(obj) == [i \in 1..Len(obj) |-> <<obj[i][1], JsonLiteral(obj[i][2])>>]

PIValue(ts, ua, g, q, v) ==
    [time_stamp |-> ts, units_abbreviation |-> ua, good |-> g,
     questionable |-> q, value |-> v]

\* a field test by truth value instead of by identity with None
IsSetTruthy(x) ==
    CASE x.t = "NoneType" -> FALSE
      [] x.t = "bool"     -> x.s = s_True
      [] x.t = "int"      -> x.s # s_0
      [] x.t = "float"    -> x.s \notin {s_0_0, s_neg_0_0}
      [] OTHER            -> x.s # <<>>
\* the test that guards each optional field of to_json: x is not None
IsSet(x) == x # None

to_json(self) ==
    LET d0 == << <<"Timestamp", isoformat(self.time_stamp)>> >>
        d1 == IF IsSet(self.units_abbreviation)
              THEN DictSet(d0, "UnitsAbbreviation", self.units_abbreviation)
              ELSE d0
        d2 == IF IsSet(self.good) THEN DictSet(d1, "Good", self.good) ELSE d1
        d3 == IF IsSet(self.questionable)
              THEN DictSet(d2, "Questionable", self.questionable)
              ELSE d2
        d4 == IF IsSet(self.value) THEN DictSet(d3, "Value", self.value) ELSE d3
    IN  json_dumps(d4)

\* the inputs of the model
TimeStamps ==
    { datetime_min,
      [year |-> 2021, month |-> 11, day |-> 13, hour |-> 21, minute |-> 0,
       second |-> 0, microsecond |-> 0],
      [year |-> 2021, month |-> 11, day |-> 13, hour |-> 21, minute |-> 5,
       second |-> 30, microsecond |-> 250000] }
Units == {None, PyStr(s_degC), PyStr(s_degree_C)}
Flags == {None, PyTrue, PyFalse}
Payloads == {None, PyInt(s_0), PyFloat(s_42_5), PyStr(<<>>), PyStr(s_a_quote_b)}
PIValues ==
    { PIValue(ts, ua, g, q, v) :
        ts \in TimeStamps, ua \in Units, g \in Flags, q \in Flags, v \in Payloads }
\* the values the write operation is tried with
SampleValues ==
    { PIValue(datetime_min, None, None, None, None),
      PIValue(CHOOSE ts \in TimeStamps : ts.microsecond # 0, None, None, None,
              PyFloat(s_42_5)),
      PIValue(datetime_min, PyStr(s_degC), PyFalse, PyTrue, PyInt(s_0)) }

----------------------------------------------------------------------------
(* PiConsts *)

BufferOption == {s_DoNotBuffer, s_BufferIdPossible, s_Buffer}
UpdateOption ==
    {s_Replace, s_Insert, s_NoReplace, s_ReplaceOnly, s_InsertNoCompression,
     s_Remove}
\* the retrieval mode tokens
RetrievalMode == {s_Exact, s_Before, s_After, s_Interpolated}

----------------------------------------------------------------------------
(* The transport: requests and the responses it may give *)

codes_ok == 200
codes_no_content == 204
codes_bad_request == 400
codes_not_found == 404

base_url == s_piserver
starting_url == s_https \o base_url \o s_piwebapi

\* str.format of an argument inside an f-string
Format(v) == v.s

GetRequest(url) == [method |-> "GET", url |-> url, data |-> <<>>]
PostRequest(url, data) == [method |-> "POST", url |-> url, data |-> data]
Response(status, content, headers) ==
    [status_code |-> status, content |-> content, headers |-> headers]

Names == {s_tagA, s_tagB}
WebIds == {s_W1, s_W2}
Item(n, w) == << <<"Name", n>>, <<"WebId", w>> >>
ItemLists ==
    UNION { [1..n -> {Item(nm, w) : nm \in Names, w \in WebIds}] : n \in 0..MaxItems }

\* a failed GET carries no JSON the code reads
GetFailures ==
    { Response(st, <<>>, <<>>) : st \in {codes_no_content, codes_not_found} }
SearchResponses ==
    GetFailures \cup
    { Response(codes_ok, c, <<>>) :
        c \in {<<>>} \cup { << <<"Items", l>> >> : l \in ItemLists } }

Row(ts, v) == << <<"Timestamp", PyStr(ts)>>, <<"Value", v>>, <<"Good", PyTrue>> >>
InterpolatedResponses ==
    GetFailures \cup
    { Response(codes_ok, c, <<>>) :
        c \in { <<>>,
                << <<"Items", <<>> >> >>,
                << <<"Items", <<Row(s_21h, PyFloat(s_1_5))>> >> >>,
                << <<"Items", <<Row(s_21h, PyFloat(s_2_5)),
                                Row(s_22h, PyInt(s_0))>> >> >> } }

ValueObjects ==
    { <<>>,
      << <<"Timestamp", PyStr(s_21h)>>,
         <<"Value", PyFloat(s_3_5)>>, <<"Good", PyTrue>> >>,
      << <<"Timestamp", PyStr(s_21h)>>,
         <<"Value", PyInt(s_0)>>, <<"Good", PyFalse>> >>,
      << <<"Timestamp", PyStr(s_21h)>>, <<"Good", PyFalse>> >> }
RecordedResponses ==
    GetFailures \cup
    { Response(codes_ok, c, <<>>) :
        c \in {<<>>} \cup { << <<"Value", o>> >> : o \in ValueObjects } }

\* the answers to the two requests of get_data_servers
dataservers_url == starting_url \o s_dataservers
TopLevelResponses ==
    GetFailures \cup
    { Response(codes_ok, c, <<>>) :
        c \in { <<>>,
                << <<"Links", <<>> >> >>,
                << <<"Links", << <<"DataServers", dataservers_url>> >> >> >> } }
DataServer(n, w) == << <<"Name", n>>, <<"WebId", w>> >>
DataServerResponses ==
    { Response(st, c, <<>>) :
        st \in {codes_ok, codes_not_found},
        c \in { <<>>,
                << <<"Items", <<>> >> >>,
                << <<"Items", <<DataServer(s_piserver, s_W1)>> >> >> } }

Locations == { starting_url \o s_streams \o w \o s_value : w \in WebIds }
PostResponses ==
    { Response(st, <<>>, h) :
        st \in {codes_ok, codes_no_content, codes_bad_request, codes_not_found},
        h \in {<<>>} \cup { << <<"Location", l>> >> : l \in Locations } }

----------------------------------------------------------------------------
(* Connection: the helpers, as functions of the response they receive *)

\* get_data_servers, on the answer to its first request: the URL of the second
get_data_servers_link(response) ==
    IF response.status_code # codes_ok
    THEN Raise("ConnectionError", "Connection to PI REST API Server failed", <<>>)
    ELSE IF ~DictHas(response.content, "Links") THEN Raise("KeyError", "Links", <<>>)
    ELSE IF ~DictHas(DictGet(response.content, "Links"), "DataServers")
    THEN Raise("KeyError", "DataServers", <<>>)
    ELSE Return(DictGet(DictGet(response.content, "Links"), "DataServers"))

\* get_data_servers, on the answer to its second request, whose status it
\* does not test
get_data_servers_list(response) ==
    IF ~DictHas(response.content, "Items") THEN Raise("KeyError", "Items", <<>>)
    ELSE Return(DictGet(response.content, "Items"))

find_pi_webid_url(pi_tag) == starting_url \o s_search \o Format(pi_tag)

\* {idx["Name"]: idx["WebId"] for idx in items}
RECURSIVE WebidComprehension(_, _)
WebidComprehension(items, acc) ==
    IF items = <<>> THEN acc
    ELSE WebidComprehension(
             Tail(items),
             DictSet(acc, DictGet(Head(items), "Name"), DictGet(Head(items), "WebId")))

\* a resolver that hands back the empty mapping of an empty "Items" list
find_pi_webid_no_empty_check(response) ==
    IF response.status_code # codes_ok THEN Raise("LookupError", "", response)
    ELSE IF ~DictHas(response.content, "Items") THEN Raise("KeyError", "Items", <<>>)
    ELSE Return(WebidComprehension(DictGet(response.content, "Items"), <<>>))

_find_pi_webid(response) ==
    IF response.status_code # codes_ok THEN Raise("LookupError", "", response)
    ELSE IF ~DictHas(response.content, "Items") THEN Raise("KeyError", "Items", <<>>)
    ELSE IF NonEmpty(DictGet(response.content, "Items"))
    THEN Return(WebidComprehension(DictGet(response.content, "Items"), <<>>))
    ELSE Raise("ValueError", "No response. Please check tag name", <<>>)

interpolated_url(webid) == starting_url \o s_streams \o webid \o s_interpolated

\* pd.DataFrame(list of row dicts): a RangeIndex, the columns in order of
\* first appearance, and one record per row
RECURSIVE Columns(_, _)
Columns(keys, acc) ==
    IF keys = <<>> THEN acc
    ELSE Columns(Tail(keys),
                 IF \E i \in 1..Len(acc) : acc[i] = Head(keys)
                 THEN acc ELSE Append(acc, Head(keys)))
RECURSIVE AllKeys(_)
AllKeys(rows) == IF rows = <<>> THEN <<>> ELSE DictKeys(Head(rows)) \o AllKeys(Tail(rows))
DataFrame(rows) ==
    [index |-> [i \in 1..Len(rows) |-> i - 1],
     columns |-> Columns(AllKeys(rows), <<>>),
     data |-> rows]

_single_interpolated_value_getter(response) ==
    IF response.status_code # codes_ok THEN Raise("LookupError", "", response)
    ELSE IF ~DictHas(response.content, "Items") THEN Raise("KeyError", "Items", <<>>)
    ELSE IF NonEmpty(DictGet(response.content, "Items"))
    THEN Return(DataFrame(DictGet(response.content, "Items")))
    ELSE Raise("ValueError", "No response. Please check webid", <<>>)

recordedattime_url(webid, time, retrival_mode) ==
    starting_url \o s_streams \o webid \o s_recordedattime
        \o retrival_mode \o s_time \o time

\* the token in lower case
ExactTokenLower == s_exact_lower
\* the token the getter compares retrival_mode.value with
ExactToken == s_Exact

_single_recordedattime_value_getter(response, retrival_mode) ==
    IF response.status_code # codes_ok THEN Raise("LookupError", "", response)
    ELSE IF ~DictHas(response.content, "Value") THEN Raise("KeyError", "Value", <<>>)
    ELSE IF NonEmpty(DictGet(response.content, "Value"))
    THEN IF retrival_mode = ExactToken
         THEN IF DictHas(DictGet(response.content, "Value"), "Value")
              THEN Return(DictGet(DictGet(response.content, "Value"), "Value"))
              ELSE Raise("KeyError", "Value", <<>>)
         ELSE Return(DictGet(response.content, "Value"))
    ELSE Raise("ValueError", "No response. Please check webid", <<>>)

value_url(webid, update_option, buffer_option) ==
    starting_url \o s_streams \o webid \o s_updateOption \o update_option
        \o s_bufferOption \o buffer_option

\* a status test that accepts OK alone
WriteAcceptedOkOnly(status_code) == status_code = codes_ok
\* the status test of update_value
WriteAccepted(status_code) ==
    ~(status_code # codes_ok /\ status_code # codes_no_content)

update_value_result(response) ==
    IF ~WriteAccepted(response.status_code) THEN Raise("LookupError", "", response)
    ELSE IF DictHas(response.headers, "Location")
    THEN Return(DictGet(response.headers, "Location"))
    ELSE Raise("KeyError", "location", <<>>)

\* an argument test that asks for neither target instead of both
NeitherTarget(pi_tag, webid) == webid = None /\ pi_tag = None
\* the argument test of update_value
BothTargets(pi_tag, webid) == webid # None /\ pi_tag # None

\* the unpacking with key and value swapped
FirstKey(d) == d[1][1]
\* _, v = next(iter(webid_dic.items()))
FirstValue(d) == d[1][2]

----------------------------------------------------------------------------
(* The caller and the public operations *)

NoOutcome == [kind |-> "none"]
\* an attribute that has not been assigned
NoAttribute == [set |-> FALSE]
Attribute(v) == [set |-> TRUE, val |-> v]
NoCall == [op |-> "none"]
Call(op, pi_tag, webid, time, retrival_mode, value, update_option, buffer_option) ==
    [op |-> op, pi_tag |-> pi_tag, webid |-> webid, time |-> time,
     retrival_mode |-> retrival_mode, value |-> value,
     update_option |-> update_option, buffer_option |-> buffer_option]

PiTags == {PyStr(s_tagA), PyStr(s_tag_star)}
Times == {s_star, s_time_21h}

Init ==
    /\ pc = "idle"
    /\ call = NoCall
    /\ requests = <<>>
    /\ responses = <<>>
    /\ webid_dic = <<>>
    /\ response_dict = <<>>
    /\ outcome = NoOutcome
    /\ data_server_list = NoAttribute

\* the call ends, returning or raising o
Finish(o) == pc' = "done" /\ outcome' = o
\* the call hands one more request to the transport and blocks on it
Send(req, at) == pc' = at /\ requests' = Append(requests, req) /\ outcome' = outcome

\* PIValue.to_json()
PIValue_to_json ==
    \E v \in PIValues :
        /\ pc = "idle"
        /\ call' = Call("to_json", None, None, <<>>, <<>>, v, <<>>, <<>>)
        /\ Finish(Return(to_json(v)))
        /\ UNCHANGED <<requests, responses, webid_dic, response_dict, data_server_list>>

\* Connection.get_data_servers() hands its first request to the transport
get_data_servers ==
    /\ pc = "idle"
    /\ call' = Call("get_data_servers", None, None, <<>>, <<>>, None, <<>>, <<>>)
    /\ Send(GetRequest(starting_url), "top")
    /\ UNCHANGED <<responses, webid_dic, response_dict, data_server_list>>

\* the first request of get_data_servers is answered
TopLevelAnswered ==
    \E response \in TopLevelResponses :
        LET r == get_data_servers_link(response) IN
        /\ pc = "top"
        /\ responses' = Append(responses, response)
        /\ UNCHANGED <<call, webid_dic, response_dict, data_server_list>>
        /\ IF r.kind = "raise"
           THEN Finish(r) /\ UNCHANGED requests
           ELSE Send(GetRequest(r.val), "dataservers")

\* the second request of get_data_servers is answered
DataServersAnswered ==
    \E response \in DataServerResponses :
        LET r == get_data_servers_list(response) IN
        /\ pc = "dataservers"
        /\ responses' = Append(responses, response)
        /\ Finish(r)
        /\ data_server_list' =
              IF r.kind = "return" THEN Attribute(r.val) ELSE data_server_list
        /\ UNCHANGED <<call, requests, webid_dic, response_dict>>

\* the four read operations open with self._find_pi_webid(pi_tag)
StartRead(op, pi_tag, time, retrival_mode) ==
    /\ call' = Call(op, pi_tag, None, time, retrival_mode, None, <<>>, <<>>)
    /\ Send(GetRequest(find_pi_webid_url(pi_tag)), "search")
    /\ UNCHANGED <<responses, webid_dic, response_dict, data_server_list>>

get_interpolated_value ==
    \E pi_tag \in PiTags :
        /\ pc = "idle"
        /\ StartRead("get_interpolated_value", pi_tag, <<>>, <<>>)

get_interpolated_values ==
    \E pi_tag \in PiTags :
        /\ pc = "idle"
        /\ StartRead("get_interpolated_values", pi_tag, <<>>, <<>>)

get_recordedattime_value ==
    \E pi_tag \in PiTags, time \in Times, retrival_mode \in RetrievalMode :
        /\ pc = "idle"
        /\ StartRead("get_recordedattime_value", pi_tag, time, retrival_mode)

get_recordedattim_values ==
    \E pi_tag \in PiTags, time \in Times, retrival_mode \in RetrievalMode :
        /\ pc = "idle"
        /\ StartRead("get_recordedattim_values", pi_tag, time, retrival_mode)

update_value ==
    \E value \in SampleValues, update_option \in UpdateOption,
       buffer_option \in BufferOption,
       pi_tag \in PiTags \cup {None}, webid \in {PyStr(w) : w \in WebIds} \cup {None} :
        /\ pc = "idle"
        /\ call' = Call("update_value", pi_tag, webid, <<>>, <<>>, value,
                        update_option, buffer_option)
        /\ UNCHANGED <<responses, webid_dic, response_dict, data_server_list>>
        /\ IF BothTargets(pi_tag, webid)
           THEN /\ Finish(Raise("ValueError",
                                "Cannot pass both webid and pi_tag at the same time",
                                <<>>))
                /\ UNCHANGED requests
           ELSE IF webid = None
           THEN Send(GetRequest(find_pi_webid_url(pi_tag)), "search")
           ELSE Send(PostRequest(value_url(Format(webid), update_option, buffer_option),
                                 to_json(value)), "post")

\* the request a single-result operation issues for the identifier v
SingleRequest(c, v) ==
    CASE c.op = "get_interpolated_value" -> GetRequest(interpolated_url(v))
      [] c.op = "get_recordedattime_value" ->
            GetRequest(recordedattime_url(v, c.time, c.retrival_mode))
      [] c.op = "update_value" ->
            PostRequest(value_url(v, c.update_option, c.buffer_option),
                        to_json(c.value))

\* the request a multi-result operation issues for the identifier v
MultiRequest(c, v) ==
    CASE c.op = "get_interpolated_values" -> GetRequest(interpolated_url(v))
      [] c.op = "get_recordedattim_values" ->
            GetRequest(recordedattime_url(v, c.time, c.retrival_mode))

SingleOps == {"get_interpolated_value", "get_recordedattime_value", "update_value"}
MultiOps == {"get_interpolated_values", "get_recordedattim_values"}

\* len(webid_dic) > 1
MoreThanOne(d) == Len(d) > 1

AmbiguousMessage(op) ==
    CASE op = "update_value" ->
            "more than one associated webids have been found, use single webid instead"
      [] OTHER ->
            "more than one tags have been found, use get_interpolated_values method instead"

\* _find_pi_webid returns inside a single-result operation
SingleResolved ==
    \E response \in SearchResponses :
        LET r == _find_pi_webid(response) IN
        /\ pc = "search"
        /\ call.op \in SingleOps
        /\ responses' = Append(responses, response)
        /\ UNCHANGED <<call, response_dict, data_server_list>>
        /\ IF r.kind = "raise"
           THEN Finish(r) /\ UNCHANGED <<requests, webid_dic>>
           ELSE /\ webid_dic' = r.val
                /\ IF MoreThanOne(r.val)
                   THEN /\ Finish(Raise("ValueError", AmbiguousMessage(call.op),
                                        DictKeys(r.val)))
                        /\ UNCHANGED requests
                   ELSE IF r.val = <<>>
                   THEN Finish(Raise("StopIteration", "", <<>>)) /\ UNCHANGED requests
                   ELSE Send(SingleRequest(call, FirstValue(r.val)),
                             IF call.op = "update_value" THEN "post" ELSE "fetch")

\* a comprehension that fetches its first tag over again
FirstTagAgain(tag_names, done) == tag_names[1]
\* the tag a multi-result operation fetches after `done` fetches have returned
NextTag(tag_names, done) == tag_names[Len(done) + 1]
\* whether the comprehension has another tag to fetch
MoreTags(tag_names, done) == Len(done) < Len(tag_names)

\* _find_pi_webid returns inside a multi-result operation
MultiResolved ==
    \E response \in SearchResponses :
        LET r == _find_pi_webid(response) IN
        /\ pc = "search"
        /\ call.op \in MultiOps
        /\ responses' = Append(responses, response)
        /\ UNCHANGED <<call, response_dict, data_server_list>>
        /\ IF r.kind = "raise"
           THEN Finish(r) /\ UNCHANGED <<requests, webid_dic>>
           ELSE /\ webid_dic' = r.val
                /\ IF MoreTags(DictKeys(r.val), <<>>)
                   THEN Send(MultiRequest(call,
                                 DictGet(r.val, NextTag(DictKeys(r.val), <<>>))),
                             "fetch")
                   ELSE Finish(Return(<<>>)) /\ UNCHANGED requests

\* the getter a read operation applies to a fetch response
Getter(c, response) ==
    IF c.op \in {"get_interpolated_value", "get_interpolated_values"}
    THEN _single_interpolated_value_getter(response)
    ELSE _single_recordedattime_value_getter(response, c.retrival_mode)
FetchResponses(c) ==
    IF c.op \in {"get_interpolated_value", "get_interpolated_values"}
    THEN InterpolatedResponses
    ELSE RecordedResponses

\* the fetch of a single-result read operation returns
SingleFetched ==
    \E response \in FetchResponses(call) :
        /\ pc = "fetch"
        /\ call.op \in SingleOps
        /\ responses' = Append(responses, response)
        /\ Finish(Getter(call, response))
        /\ UNCHANGED <<call, requests, webid_dic, response_dict, data_server_list>>

\* one fetch of a multi-result read operation returns
MultiFetched ==
    \E response \in FetchResponses(call) :
        LET r == Getter(call, response)
            tag_names == DictKeys(webid_dic)
            got == DictSet(response_dict, NextTag(tag_names, response_dict), r.val)
        IN
        /\ pc = "fetch"
        /\ call.op \in MultiOps
        /\ responses' = Append(responses, response)
        /\ UNCHANGED <<call, webid_dic, data_server_list>>
        /\ IF r.kind = "raise"
           THEN Finish(r) /\ UNCHANGED <<requests, response_dict>>
           ELSE /\ response_dict' = got
                /\ IF MoreTags(tag_names, got)
                   THEN Send(MultiRequest(call, DictGet(webid_dic, NextTag(tag_names, got))),
                             "fetch")
                   ELSE Finish(Return(got)) /\ UNCHANGED requests

\* the POST of update_value returns
Posted ==
    \E response \in PostResponses :
        /\ pc = "post"
        /\ responses' = Append(responses, response)
        /\ Finish(update_value_result(response))
        /\ UNCHANGED <<call, requests, webid_dic, response_dict, data_server_list>>

\* the caller has the result; the locals of the call are gone, the
\* attributes of the connection stay
Returned ==
    /\ pc = "done"
    /\ pc' = "idle"
    /\ call' = NoCall
    /\ requests' = <<>>
    /\ responses' = <<>>
    /\ webid_dic' = <<>>
    /\ response_dict' = <<>>
    /\ outcome' = NoOutcome
    /\ UNCHANGED data_server_list

Next ==
    \/ PIValue_to_json
    \/ get_data_servers
    \/ TopLevelAnswered
    \/ DataServersAnswered
    \/ get_interpolated_value
    \/ get_interpolated_values
    \/ get_recordedattime_value
    \/ get_recordedattim_values
    \/ update_value
    \/ SingleResolved
    \/ MultiResolved
    \/ SingleFetched
    \/ MultiFetched
    \/ Posted
    \/ Returned

Spec == Init /\ [][Next]_vars

----------------------------------------------------------------------------
(* Vocabulary of the properties *)

\* the error conditions, as the exceptions the code raises for them
IsInvalidArgument(o) ==
    Raised(o, "ValueError")
    /\ o.msg = "Cannot pass both webid and pi_tag at the same time"
IsAmbiguousTag(o) ==
    Raised(o, "ValueError")
    /\ o.msg \in { AmbiguousMessage("update_value"),
                   AmbiguousMessage("get_interpolated_value") }
IsEmptyResult(o) ==
    Raised(o, "ValueError")
    /\ o.msg \in { "No response. Please check tag name",
                   "No response. Please check webid" }
IsNotFound(o, response) == Raised(o, "LookupError") /\ o.arg = response

\* the call in progress resolves a tag pattern, so its first request is the search
Resolves ==
    /\ call.op \in SingleOps \cup MultiOps
    /\ call.op = "update_value" => call.webid = None
\* the search has been answered, successfully, with a list of matches
SearchAnswered ==
    /\ Resolves
    /\ Len(responses) >= 1
    /\ responses[1].status_code = codes_ok
    /\ DictHas(responses[1].content, "Items")
Matches == DictGet(responses[1].content, "Items")
\* the matches are different remote points: no identifier is listed twice
DistinctPoints ==
    \A i, j \in 1..Len(Matches) :
        i # j => DictGet(Matches[i], "WebId") # DictGet(Matches[j], "WebId")
IsSearch(req) ==
    req.method = "GET"
    /\ req.url \in { find_pi_webid_url(t) : t \in PiTags \cup {None} }

\* the request of the call's operation that is addressed to identifier w
RequestFor(w) ==
    CASE call.op \in {"get_interpolated_value", "get_interpolated_values"} ->
            GetRequest(interpolated_url(w))
      [] call.op \in {"get_recordedattime_value", "get_recordedattim_values"} ->
            GetRequest(recordedattime_url(w, call.time, call.retrival_mode))
      [] call.op = "update_value" ->
            PostRequest(value_url(w, call.update_option, call.buffer_option),
                        to_json(call.value))

\* a fetch or write response with an accepted status and the payload it is
\* expected to carry
PayloadPresent(response) ==
    CASE call.op \in {"get_interpolated_value", "get_interpolated_values"} ->
            /\ response.status_code = codes_ok
            /\ DictHas(response.content, "Items")
            /\ DictGet(response.content, "Items") # <<>>
      [] call.op \in {"get_recordedattime_value", "get_recordedattim_values"} ->
            /\ response.status_code = codes_ok
            /\ DictHas(response.content, "Value")
            /\ DictGet(response.content, "Value") # <<>>
            /\ call.retrival_mode = s_Exact
                 => DictHas(DictGet(response.content, "Value"), "Value")
      [] call.op = "update_value" ->
            /\ response.status_code \in {codes_ok, codes_no_content}
            /\ DictHas(response.headers, "Location")

----------------------------------------------------------------------------
(* C1 *)

BothSupplied ==
    /\ call.op = "update_value"
    /\ call.webid # None
    /\ call.pi_tag # None

\* C1: update_value called with both a webid and a pi_tag fails with the
\* InvalidArgument condition (ValueError, "Cannot pass both ..."), and in no
\* state of such a call has any request been handed to the transport.
C1_BothTargetsRejected ==
    BothSupplied =>
        /\ pc = "done"
        /\ IsInvalidArgument(outcome)
        /\ requests = <<>>
        /\ responses = <<>>

C1_Witness ==
    BothSupplied /\ pc = "done" /\ outcome.kind = "raise" /\ requests = <<>>

----------------------------------------------------------------------------
(* C2 *)

\* C2: whenever the search succeeds with N > 1 matches (N different points,
\* whatever their names), a single-result operation fails with AmbiguousTag listing
\* all N matched names and issues no fetch or write request.
C2_AmbiguousForAnyNames ==
    (SearchAnswered /\ call.op \in SingleOps /\ Len(Matches) > 1 /\ DistinctPoints) =>
        /\ pc = "done"
        /\ IsAmbiguousTag(outcome)
        /\ Len(outcome.arg) = Len(Matches)
        /\ \A i \in 1..Len(Matches) : outcome.arg[i] = DictGet(Matches[i], "Name")
        /\ Len(requests) = 1

----------------------------------------------------------------------------
(* C3 *)

\* C3: whenever the search succeeds with N > 1 matches (N different points)
\* and every fetch succeeds, a multi-result operation returns a mapping with exactly N entries,
\* one per matched point, keyed by the point's name and holding the result
\* fetched for the point's identifier.
C3_OneEntryPerMatch ==
    (SearchAnswered /\ call.op \in MultiOps /\ Len(Matches) > 1 /\ DistinctPoints
        /\ pc = "done" /\ outcome.kind = "return") =>
        /\ Len(outcome.val) = Len(Matches)
        /\ \A i \in 1..Len(Matches) :
              /\ outcome.val[i][1] = DictGet(Matches[i], "Name")
              /\ requests[i + 1] = RequestFor(DictGet(Matches[i], "WebId"))
              /\ Return(outcome.val[i][2]) = Getter(call, responses[i + 1])

----------------------------------------------------------------------------
(* C4 *)

ZeroMatches == SearchAnswered /\ Matches = <<>>

\* C4: when the search succeeds with zero matches, every operation that
\* resolves a tag fails with EmptyResult: it returns nothing, and no fetch or
\* write request follows the search.
C4_ZeroMatchesIsEmptyResult ==
    ZeroMatches =>
        /\ pc = "done"
        /\ IsEmptyResult(outcome)
        /\ outcome.msg = "No response. Please check tag name"
        /\ Len(requests) = 1
        /\ Len(responses) = 1

C4_Witness ==
    ZeroMatches /\ call.op \in MultiOps /\ pc = "done" /\ outcome.kind = "raise"

----------------------------------------------------------------------------
(* C5 *)

OneMatch == SearchAnswered /\ call.op \in SingleOps /\ Len(Matches) = 1

\* C5: when the search reports exactly one match, a single-result operation
\* issues exactly one further request, addressed to that match's identifier,
\* and returns a result whenever that request is answered with an accepted
\* status and the payload it is expected to carry.
C5_OneMatchUsesItsIdentifier ==
    OneMatch =>
        /\ Len(requests) = 2
        /\ requests[2] = RequestFor(DictGet(Matches[1], "WebId"))
        /\ (Len(responses) = 2 /\ PayloadPresent(responses[2]))
              => (pc = "done" /\ outcome.kind = "return")

C5_Witness ==
    /\ OneMatch
    /\ call.op = "update_value"
    /\ DictGet(Matches[1], "WebId") = s_W2
    /\ Len(responses) = 2
    /\ pc = "done"
    /\ outcome.kind = "return"

----------------------------------------------------------------------------
(* C6 *)

\* update_value has posted to a valid target and the POST has been answered
WriteAnswered ==
    /\ call.op = "update_value"
    /\ requests # <<>>
    /\ requests[Len(requests)].method = "POST"
    /\ Len(responses) = Len(requests)
WriteResponse == responses[Len(responses)]

\* C6: once the write is answered: with status OK or No Content the operation
\* returns the value of the Location header, and raises if the header is
\* absent; with any other status it raises WriteFailed (LookupError) carrying
\* the raw response, and returns no location.
C6_WriteOutcome ==
    WriteAnswered =>
        /\ pc = "done"
        /\ IF WriteResponse.status_code \in {codes_ok, codes_no_content}
           THEN IF DictHas(WriteResponse.headers, "Location")
                THEN outcome = Return(DictGet(WriteResponse.headers, "Location"))
                ELSE outcome.kind = "raise"
           ELSE IsNotFound(outcome, WriteResponse)

C6_Witness ==
    /\ WriteAnswered
    /\ WriteResponse.status_code = codes_no_content
    /\ call.webid # None
    /\ call.value.value # None /\ call.value.good = None
    /\ outcome.kind = "return"

----------------------------------------------------------------------------
(* C7 *)

\* the k-th fetch of a recorded-at-time operation was answered with a
\* non-empty Value object
RecordedAnswered(k) ==
    /\ call.op \in {"get_recordedattime_value", "get_recordedattim_values"}
    /\ Len(responses) >= k + 1
    /\ responses[k + 1].status_code = codes_ok
    /\ DictHas(responses[k + 1].content, "Value")
    /\ DictGet(responses[k + 1].content, "Value") # <<>>
ValueObject(k) == DictGet(responses[k + 1].content, "Value")
\* what the k-th fetch gave the operation
Fetched(k) ==
    IF call.op = "get_recordedattime_value" THEN outcome
    ELSE IF k <= Len(response_dict) THEN Return(response_dict[k][2])
    ELSE outcome

\* C7: a recorded-at-time fetch answered with a non-empty Value object gives
\* the object's inner Value field when the retrieval mode token is "Exact"
\* (and the object has that field), and the whole Value object, unchanged, for
\* every other token.
C7_ExactUnwraps ==
    \A k \in 1..MaxItems :
        RecordedAnswered(k) =>
            IF call.retrival_mode = s_Exact
            THEN DictHas(ValueObject(k), "Value")
                    => Fetched(k) = Return(DictGet(ValueObject(k), "Value"))
            ELSE Fetched(k) = Return(ValueObject(k))

C7_Witness ==
    /\ RecordedAnswered(1)
    /\ call.op = "get_recordedattime_value"
    /\ call.retrival_mode = s_Exact
    /\ outcome = Return(PyFloat(s_3_5))

----------------------------------------------------------------------------
(* C8 *)

\* the payload key the handler of the k-th response reads
ExpectedKey(k) ==
    IF k = 1 \/ call.op \in {"get_interpolated_value", "get_interpolated_values"}
    THEN "Items" ELSE "Value"

\* C8: for the search, interpolated and recorded-at-time requests, a status
\* other than OK yields NotFound (LookupError), and status OK with the expected
\* key (Items, Items, Value) missing or empty yields EmptyResult (ValueError).
C8_MissingOrEmptyIsEmptyResult ==
    (Resolves /\ responses # <<>> /\ requests[Len(responses)].method = "GET") =>
        LET k == Len(responses)
            response == responses[k]
        IN  /\ response.status_code # codes_ok
                => (pc = "done" /\ IsNotFound(outcome, response))
            /\ (response.status_code = codes_ok
                /\ (~DictHas(response.content, ExpectedKey(k))
                    \/ DictGet(response.content, ExpectedKey(k)) = <<>>))
                => (pc = "done" /\ IsEmptyResult(outcome))

----------------------------------------------------------------------------
(* C9 *)

JsonKeys(members) == { members[i][1] : i \in 1..Len(members) }
SetFields(v) ==
    {"Timestamp"}
    \cup (IF v.units_abbreviation # None THEN {"UnitsAbbreviation"} ELSE {})
    \cup (IF v.good # None THEN {"Good"} ELSE {})
    \cup (IF v.questionable # None THEN {"Questionable"} ELSE {})
    \cup (IF v.value # None THEN {"Value"} ELSE {})
Serialized == pc = "done" /\ call.op = "to_json"

\* C9: the keys of the serialized form of a PIValue are exactly Timestamp plus
\* one key per optional field that was set (a field set to False included);
\* no key appears twice and no member is null.
C9_OnlySetFieldsSerialized ==
    Serialized =>
        /\ JsonKeys(outcome.val) = SetFields(call.value)
        /\ Cardinality(JsonKeys(outcome.val)) = Len(outcome.val)
        /\ \A i \in 1..Len(outcome.val) : outcome.val[i][2] # s_null

C9_Witness ==
    /\ Serialized
    /\ call.value.good = PyFalse
    /\ call.value.value = PyInt(s_0)
    /\ call.value.units_abbreviation = None
    /\ JsonKeys(outcome.val) = {"Timestamp", "Good", "Value"}

----------------------------------------------------------------------------
(* C10 *)

\* the i-th response carries a status the request's handler accepts
StatusAccepted(i) ==
    IF requests[i].method = "POST"
    THEN responses[i].status_code \in {codes_ok, codes_no_content}
    ELSE responses[i].status_code = codes_ok

\* the handler of the i-th response raised
Failed(i) ==
    IF call.op = "get_data_servers"
    THEN IF i = 1 THEN get_data_servers_link(responses[i]).kind = "raise"
         ELSE get_data_servers_list(responses[i]).kind = "raise"
    ELSE IF IsSearch(requests[i]) THEN _find_pi_webid(responses[i]).kind = "raise"
    ELSE IF requests[i].method = "POST"
    THEN update_value_result(responses[i]).kind = "raise"
    ELSE Getter(call, responses[i]).kind = "raise"

TraceShape ==
    pc # "idle" =>
        \* one round trip at a time
        /\ Len(responses) <= Len(requests)
        /\ Len(requests) <= Len(responses) + 1
        /\ (pc \in {"top", "dataservers", "search", "fetch", "post"})
              <=> (Len(requests) = Len(responses) + 1)
        \* at most one search, and it comes first
        /\ \A i \in 1..Len(requests) : IsSearch(requests[i]) => i = 1
        \* a fetch or write follows a search that succeeded, or is the direct write
        /\ call.op \in SingleOps \cup MultiOps =>
              \A i \in 1..Len(requests) :
                  ~IsSearch(requests[i]) =>
                      IF i = 1
                      THEN call.op = "update_value" /\ call.webid # None
                      ELSE IsSearch(requests[1]) /\ ~Failed(1)
        \* the catalog operation issues no search, fetch or write: its two
        \* requests go to the catalog, the second after the first succeeded
        /\ call.op = "get_data_servers" =>
              /\ Len(requests) <= 2
              /\ requests[1] = GetRequest(starting_url)
              /\ Len(requests) = 2 =>
                    (~Failed(1) /\ requests[2] = GetRequest(dataservers_url))
        \* a request answered with a status that is not accepted is the last one
        /\ \A i \in 1..Len(responses) : ~StatusAccepted(i) => i = Len(requests)
        \* a failed request is the last one, and it ends the call
        /\ \A i \in 1..Len(responses) :
              Failed(i) => (i = Len(requests) /\ pc = "done" /\ outcome.kind = "raise")
        \* a single-result operation issues at most one fetch or write
        /\ call.op \in SingleOps => Len(requests) <= 2
        \* a multi-result operation fetches the matched names in order, one each
        /\ call.op \in MultiOps =>
              /\ Len(requests) <= 1 + Len(webid_dic)
              /\ \A i \in 2..Len(requests) :
                    requests[i] = RequestFor(webid_dic[i - 1][2])
              /\ (pc = "done" /\ outcome.kind = "return")
                    => (Len(requests) = 1 + Len(webid_dic)
                        /\ DictKeys(outcome.val) = DictKeys(webid_dic))

TraceStep ==
    \/ pc = "done" /\ pc' = "idle"
    \/ /\ \/ requests' = requests
          \/ /\ Len(requests') = Len(requests) + 1
             /\ SubSeq(requests', 1, Len(requests)) = requests
       /\ pc = "done" => requests' = requests
       /\ Len(requests') > Len(requests) => Len(responses') = Len(requests)

\* C10: the requests of one call form a sequential trace: at most one search,
\* first; fetches and writes only after a successful search (or the direct
\* write); one fetch per matched name, in order; after a failed request no
\* further request and no retry.  The catalog operation get_data_servers
\* issues its two catalog requests in order and neither a search, a fetch nor
\* a write.
C10_SequentialTrace == [](TraceShape) /\ [][TraceStep]_vars

C10_Witness ==
    /\ call.op = "get_recordedattim_values"
    /\ Len(webid_dic) = 2
    /\ Len(requests) = 3
    /\ Len(responses) = 3
    /\ Failed(3)
    /\ pc = "done"

====
